---- MODULE Spec2Model ----
(***************************************************************************)
(* Scheduling and distributed-lock core of src/core/Schedule.ts:           *)
(*   - Scheduled, SchedulerLock / Lock: the decorators, applied while the  *)
(*     class is loaded;                                                    *)
(*   - SchedulerLock: the wrapper that guards a method with a lock kept in *)
(*     a key-value backend (Locker, src/util/Locker.ts);                   *)
(*   - injectSchedule / execInjectSchedule: the registrar that turns the   *)
(*     schedule metadata into started CronJob timers on "appStart".        *)
(* Time is discrete: one Tick is one time unit for lock expiry and for the *)
(* poll interval of waitLock.                                              *)
(***************************************************************************)
EXTENDS Naturals, Sequences, FiniteSets, TLC

(* ----------------------------- bounds --------------------------------- *)
\* concurrent invocations of lock-wrapped / scheduled methods
NInv == 2
\* invocations in flight where they come one after the other: the firings of
\* SpecSched, the callers of SpecOneCall (NRun <= NInv)
NRun == 1
\* firings of timer jobs in one run
MaxFire == 2
\* calls of the Scheduled decorator
MaxRegs == 2
\* times the application emits "appStart"
MaxStarts == 2

Inv == 1 .. NInv
Run == 1 .. NRun

(* ------------------- the decorated class under analysis ---------------- *)
\* IOCContainer.getIdentifier(target) of the service class
identifier == "Svc"

\* IOCContainer.getType(target): the component types of the container
ComponentTypes == {"COMPONENT", "CONTROLLER", "MIDDLEWARE", "SERVICE"}

\* The arguments each method's  @SchedulerLock(name, lockTimeOut,
\* waitLockInterval, waitLockTimeOut)  was decorated with; "" and 0 stand for
\* an argument left out (undefined).
SchedulerLockArgs ==
  [ once |-> [name |-> "L", lockTimeOut |-> 3, waitLockInterval |-> 0, waitLockTimeOut |-> 0],
    poll |-> [name |-> "L", lockTimeOut |-> 2, waitLockInterval |-> 1, waitLockTimeOut |-> 2],
    sync |-> [name |-> "",  lockTimeOut |-> 0, waitLockInterval |-> 0, waitLockTimeOut |-> 2],
    auto |-> [name |-> "L", lockTimeOut |-> 0, waitLockInterval |-> 2, waitLockTimeOut |-> 0] ]

LockedMethods == DOMAIN SchedulerLockArgs

\* the wrapped methods that concurrent callers invoke
ContendedMethods == {"once", "poll", "sync"}

\* the methods of the class that carry @Scheduled: "job" is a plain method,
\* "once" is also wrapped by @SchedulerLock
ScheduledMethods == {"job", "once"}

\* cron expressions handed to Scheduled; "" is the empty expression
EverySecond == "*/1 * * * * *"
EveryHour == "0 0 * * * *"
CronExprs == {"", EverySecond, EveryHour}

\* name = `${identifier}_${methodName}` when the name argument is empty
LockName(methodName) ==
  IF SchedulerLockArgs[methodName].name = ""
    THEN identifier \o "_" \o methodName
    ELSE SchedulerLockArgs[methodName].name

LockNames == { LockName(m) : m \in LockedMethods }

(* ------------------------------ Locker --------------------------------- *)
\* poll period waitLock falls back to when no interval is given
DefaultInterval == 1
\* give-up ceiling waitLock falls back to when no wait timeout is given
DefaultWaitTimeOut == 3

PollInterval(waitLockInterval) ==
  IF waitLockInterval = 0 THEN DefaultInterval ELSE waitLockInterval

GiveUpAfter(waitLockTimeOut) ==
  IF waitLockTimeOut = 0 THEN DefaultWaitTimeOut ELSE waitLockTimeOut

\* expiry the backend falls back to when no lockTimeOut is given
DefaultLockTimeOut == 1

ExpireAfter(lockTimeOut) ==
  IF lockTimeOut = 0 THEN DefaultLockTimeOut ELSE lockTimeOut

\* a free entry of the backend
Free == [holder |-> 0, ttl |-> 0]

VARIABLES
  calls,         \* calls[i]: the state of wrapper / method invocation i
  store,         \* the lock backend: lock name -> [holder, ttl]
  client,        \* the memoized Locker instance: "none" before it exists, then "ready"
  expiredInUse,  \* lock names whose entry expired before its holder's wrapper completed
  registry,      \* SCHEDULE_KEY metadata of the class: the attached {cron, method}, in order
  configErrors,  \* errors thrown at decoration time
  injected,      \* injectSchedule has been called for the class
  listeners,     \* the one-shot "appStart" listeners of the application, in order
  timers,        \* the CronJob objects created so far, in order
  appStarts,     \* times "appStart" has been emitted
  fires,         \* firings of timer jobs so far
  driverErrors,  \* errors that escaped a firing into the timer driver
  hasApp,        \* what container.getApp() gave injectSchedule: "unread" before the
                 \* call, then "yes" (an application object) or "no" (nothing)
  componentType, \* the component type of the class that carries the decorators
  decorations    \* per method, what applying @SchedulerLock did: "none" (not applied),
                 \* "wrapped" (descriptor replaced), "threw" (error, descriptor kept)

lockVars == <<calls, store, client, expiredInUse>>
schedVars ==
  <<registry, configErrors, injected, listeners, timers, appStarts, fires, driverErrors, hasApp>>
decorVars == <<componentType, decorations>>
vars == <<lockVars, schedVars, decorVars>>

\* calls[i]:
\*   pc            "idle", "lock" / "waitLock" (awaiting the Locker), "body"
\*                 (inside the original method), "unLock" (awaiting release), "done"
\*   method,caller the method invoked; 0 for a direct caller, t for timer job t
\*   receiver, props   the receiver (this) and the arguments of the call
\*   anyConfig     one of the two configuration keys held options
\*   redisOptions  the configuration the wrapper resolved
\*   lockerCls     what Locker.getInstance returned
\*   mode          which Locker call was made: "none", "lock", "waitLock"
\*   acquired      how that call settled: "none", "true", "false", "reject"
\*   lockerFlag    the wrapper's lockerFlag
\*   invoked       calls of the original method; res: how it ended
\*   applied       the receiver and arguments the original method was called with
\*   unLocks       calls of unLock; rel: how the release settled
\*   freeAtEnd     the lock name was free at the moment the wrapper completed
\*   outcome       what the caller of the wrapper observes
\*   elapsed, remaining   time spent in waitLock, time to its next attempt
Idle ==
  [ pc |-> "idle", method |-> "", caller |-> 0, receiver |-> "", props |-> <<>>,
    applied |-> [receiver |-> "", props |-> <<>>], anyConfig |-> FALSE,
    redisOptions |-> "", lockerCls |-> "", mode |-> "none", acquired |-> "none",
    lockerFlag |-> FALSE, invoked |-> 0, res |-> "none", unLocks |-> 0,
    rel |-> "none", freeAtEnd |-> FALSE, outcome |-> "pending",
    elapsed |-> 0, remaining |-> 0 ]

\* nothing has been called, registered or created yet
Unused ==
  /\ calls = [i \in Inv |-> Idle]
  /\ store = [n \in LockNames |-> Free]
  /\ client = "none"
  /\ expiredInUse = {}
  /\ registry = <<>>
  /\ configErrors = 0
  /\ injected = FALSE
  /\ listeners = <<>>
  /\ timers = <<>>
  /\ appStarts = 0
  /\ fires = 0
  /\ driverErrors = 0
  /\ hasApp = "unread"

\* the class file is being loaded: no decorator has run yet
InitDecorate ==
  /\ Unused
  /\ componentType \in ComponentTypes
  /\ decorations = [m \in LockedMethods |-> "none"]

\* a service class whose methods have been decorated
Init ==
  /\ Unused
  /\ componentType = "SERVICE"
  /\ decorations = [m \in LockedMethods |-> "wrapped"]

(* --------------------------- SchedulerLock ----------------------------- *)
\* const componentType = IOCContainer.getType(target);
\* if (componentType === "CONTROLLER") throw Error(...); ... return descriptor;
\* (variant: the decorator without the check)
SchedulerLockDecoratorUnchecked(type) == "wrapped"
SchedulerLockDecorator(type) == IF type = "CONTROLLER" THEN "threw" ELSE "wrapped"

\* @SchedulerLock(...) is applied to method m while the class is loaded
SchedulerLock(m) ==
  /\ decorations[m] = "none"
  /\ decorations' = [decorations EXCEPT ![m] = SchedulerLockDecorator(componentType)]
  /\ UNCHANGED <<lockVars, schedVars, componentType>>

\* export const Lock = SchedulerLock
Lock(m) == SchedulerLock(m)

\* the method's descriptor holds the wrapper
IsWrapped(m) == m \in LockedMethods /\ decorations[m] = "wrapped"

\* the arguments a direct caller (c = 0) or the onTick of a timer job (c > 0)
\* hands to the method: instance[method]() passes none
Props(i, c) == IF c = 0 THEN <<i>> ELSE <<>>

\* value.apply(this, props): what the original method is called with
\* (variant: value.apply(this))
ApplyNoProps(receiver, props) == [receiver |-> receiver, props |-> <<>>]
Apply(receiver, props) == [receiver |-> receiver, props |-> props]

\* What app.config(key, "db") may give: nothing, an empty object, options.
ConfigValues == {"undef", "emptyObj", "opts"}

\* this.app.config("SchedulerLock", "db") || this.app.config("redis", "db"):
\* || keeps its left operand when that is truthy, and an empty object is truthy
RedisOptions(schedulerLockCfg, redisCfg) ==
  IF schedulerLockCfg # "undef" THEN schedulerLockCfg ELSE redisCfg

\* helper.isEmpty(redisOptions); the Lax variant tests for undefined only
ConfigMissingLax(redisOptions) == redisOptions = "undef"
ConfigMissing(redisOptions) == redisOptions \in {"undef", "emptyObj"}

\* Locker.getInstance(redisOptions): the memoized client, or a new one, or
\* nothing when the connection cannot be set up
GetInstance == IF client = "none" THEN {"null", "ready"} ELSE {client}

\* if (!lockerCls) throw Error("Redis connection failed ...");
\* the Silent variant returns instead of throwing
ClientCheckSilent(lockerCls) == IF lockerCls = "null" THEN "skip" ELSE "proceed"
ClientCheck(lockerCls) == IF lockerCls = "null" THEN "throw" ELSE "proceed"

\* if (waitLockInterval || waitLockTimeOut)
\* (variant: the test of waitLockTimeOut alone)
UseWaitLockTimeOutOnly(args) == args.waitLockTimeOut # 0
UseWaitLock(args) == args.waitLockInterval # 0 \/ args.waitLockTimeOut # 0

\* the arguments handed to waitLock after the name:
\* lockTimeOut, waitLockInterval, waitLockTimeOut
\* (the NoTimeOut variant leaves the last one out)
\* (the Swapped variant hands the two timeouts over in each other's place)
WaitLockArgsNoTimeOut(args) == <<args.lockTimeOut, args.waitLockInterval, 0>>
WaitLockArgsSwapped(args) == <<args.waitLockTimeOut, args.waitLockInterval, args.lockTimeOut>>
WaitLockArgs(args) == <<args.lockTimeOut, args.waitLockInterval, args.waitLockTimeOut>>

\* lockerFlag = await lockerCls.lock(...).catch(er => { logger.error(er); return false; })
\* r is how the Locker promise settles: "true", "false" or "reject"
\* (variants: a handler that returns true; no handler at all)
AwaitedCatchTrue(r) == IF r = "reject" THEN "true" ELSE r
AwaitedNoCatch(r) == r
Awaited(r) == IF r = "reject" THEN "false" ELSE r

\* finally { if (lockerCls.unLock) await lockerCls.unLock(name) ... }:
\* is release called once the guarded method ended with res; unLock is a
\* method of every Locker instance
\* (variant: the release placed after the try block instead of in finally)
CallsUnLockOnReturnOnly(res, lockerCls) == res = "returned" /\ lockerCls = "ready"
CallsUnLock(res, lockerCls) == lockerCls = "ready"

\* what the wrapper's caller observes: return res / return Promise.reject(e),
\* after unLock(name).catch(er => logger.error(er)) settled with rel
\* (variant: unLock awaited without the catch)
CallerOutcomeNoCatch(res, rel) ==
  IF rel = "reject" THEN "ReleaseError"
  ELSE IF res = "threw" THEN "BusinessError" ELSE "value"
CallerOutcome(res, rel) == IF res = "threw" THEN "BusinessError" ELSE "value"

Done(c, outcome) == [c EXCEPT !.pc = "done", !.outcome = outcome]

\* the wrapper from the settling of lock()/waitLock() up to the first await
\* inside the guarded method
\* (variant: the release reached on a failed acquisition as well)
SettleAlwaysRelease(c, r) ==
  LET c1 == [c EXCEPT !.acquired = r]
  IN IF r = "true"
       THEN [c1 EXCEPT !.pc = "body", !.lockerFlag = TRUE, !.invoked = @ + 1,
                       !.applied = [receiver |-> c.receiver, props |-> c.props]]
       ELSE [c1 EXCEPT !.pc = "unLock", !.unLocks = @ + 1]

Settle(c, r) ==
  LET v == Awaited(r)
      c1 == [c EXCEPT !.acquired = r]
  IN IF v = "reject" THEN Done(c1, "AcquireError")
     ELSE IF v = "true"
       THEN [c1 EXCEPT !.pc = "body", !.lockerFlag = TRUE, !.invoked = @ + 1,
                       !.applied = Apply(c.receiver, c.props)]
       ELSE Done(c1, "undefined")

\* the wrapper from its call up to the first await: configuration, client,
\* and the call of lock() or waitLock()
Wrapper(i, m, c) ==
  /\ calls[i].pc = "idle"
  /\ IsWrapped(m)
  /\ \E schedulerLockCfg \in ConfigValues, redisCfg \in ConfigValues, lockerCls \in GetInstance :
       LET redisOptions == RedisOptions(schedulerLockCfg, redisCfg)
           args == SchedulerLockArgs[m]
           c0 == [Idle EXCEPT !.method = m, !.caller = c, !.receiver = identifier,
                              !.props = Props(i, c), !.redisOptions = redisOptions,
                              !.anyConfig = (schedulerLockCfg = "opts" \/ redisCfg = "opts")]
           c1 == [c0 EXCEPT !.lockerCls = lockerCls]
       IN IF ConfigMissing(redisOptions)
            THEN /\ calls' = [calls EXCEPT ![i] = Done(c0, "ConfigError")]
                 /\ UNCHANGED client
            ELSE /\ client' = IF lockerCls = "null" THEN client ELSE lockerCls
                 /\ calls' = [calls EXCEPT ![i] =
                      IF ClientCheck(lockerCls) = "throw" THEN Done(c1, "ConnError")
                      ELSE IF ClientCheck(lockerCls) = "skip" THEN Done(c1, "undefined")
                      ELSE IF UseWaitLock(args)
                        THEN [c1 EXCEPT !.pc = "waitLock", !.mode = "waitLock"]
                        ELSE [c1 EXCEPT !.pc = "lock", !.mode = "lock"]]
  /\ UNCHANGED <<store, expiredInUse>>

\* Locker.lock(name, lockTimeOut): one attempt; succeeds only on a free
\* entry, which it takes for lockTimeOut; fails when the entry is held or the
\* backend cannot be reached
Held(i, lockTimeOut) == [holder |-> i, ttl |-> ExpireAfter(lockTimeOut)]

LockSettles(i) ==
  /\ calls[i].pc = "lock"
  /\ LET n == LockName(calls[i].method)
         args == SchedulerLockArgs[calls[i].method]
     IN \E r \in {"true", "false", "reject"} :
          /\ r = "true" => store[n] = Free
          /\ store' = IF r = "true" THEN [store EXCEPT ![n] = Held(i, args.lockTimeOut)] ELSE store
          /\ calls' = [calls EXCEPT ![i] = Settle(@, r)]
  /\ UNCHANGED <<client, expiredInUse, schedVars, decorVars>>

\* Locker.waitLock(name, lockTimeOut, interval, waitTime): an attempt every
\* interval until one succeeds or the elapsed time exceeds waitTime
WaitLockStep(i) ==
  /\ calls[i].pc = "waitLock"
  /\ calls[i].remaining = 0
  /\ LET n == LockName(calls[i].method)
         a == WaitLockArgs(SchedulerLockArgs[calls[i].method])
     IN IF calls[i].elapsed > GiveUpAfter(a[3])
          THEN /\ \E r \in {"false", "reject"} : calls' = [calls EXCEPT ![i] = Settle(@, r)]
               /\ UNCHANGED store
          ELSE \E ok \in BOOLEAN :
                 /\ ok => store[n] = Free
                 /\ store' = IF ok THEN [store EXCEPT ![n] = Held(i, a[1])] ELSE store
                 /\ calls' = [calls EXCEPT ![i] =
                      IF ok THEN Settle(@, "true")
                      ELSE [@ EXCEPT !.remaining = PollInterval(a[2])]]
  /\ UNCHANGED <<client, expiredInUse, schedVars, decorVars>>

\* the guarded method ends (res = await value.apply(this, props) returns or
\* throws) and the finally block starts
BodyEnds(i, res) ==
  /\ calls[i].pc = "body"
  /\ calls[i].mode # "none"
  /\ calls' = [calls EXCEPT ![i] =
       IF CallsUnLock(res, calls[i].lockerCls)
         THEN [@ EXCEPT !.pc = "unLock", !.res = res, !.unLocks = @ + 1]
         ELSE Done([@ EXCEPT !.res = res, !.freeAtEnd = (store[LockName(calls[i].method)] = Free)],
                   CallerOutcome(res, "none"))]
  /\ UNCHANGED <<store, client, expiredInUse, schedVars, decorVars>>

\* Locker.unLock(name) settles: the entry under the name is freed, or the
\* release fails; the wrapper then returns to its caller
UnLockSettles(i) ==
  /\ calls[i].pc = "unLock"
  /\ \E rel \in {"ok", "reject"} :
       /\ store' = IF rel = "ok" THEN [store EXCEPT ![LockName(calls[i].method)] = Free] ELSE store
       /\ calls' = [calls EXCEPT ![i] =
            Done([@ EXCEPT !.rel = rel, !.freeAtEnd = (store'[LockName(calls[i].method)] = Free)],
                 CallerOutcome(calls[i].res, rel))]
  /\ UNCHANGED <<client, expiredInUse, schedVars, decorVars>>

\* one time unit passes: the backend ages its entries and expires those whose
\* lockTimeOut is used up; sleeping waitLock calls get nearer to their next try
Tick ==
  /\ \A i \in Inv : calls[i].pc = "waitLock" => calls[i].remaining > 0
  /\ \/ \E n \in LockNames : store[n] # Free
     \/ \E i \in Inv : calls[i].pc = "waitLock"
  /\ store' = [n \in LockNames |->
       IF store[n].ttl > 1 THEN [store[n] EXCEPT !.ttl = @ - 1] ELSE Free]
  /\ expiredInUse' = expiredInUse \cup
       { n \in LockNames : /\ store[n] # Free
                           /\ store[n].ttl = 1
                           /\ calls[store[n].holder].pc \in {"body", "unLock"}
                           /\ calls[store[n].holder].method \in LockedMethods
                           /\ LockName(calls[store[n].holder].method) = n }
  /\ calls' = [i \in Inv |->
       IF calls[i].pc = "waitLock"
         THEN [calls[i] EXCEPT !.elapsed = @ + 1, !.remaining = @ - 1]
         ELSE calls[i]]
  /\ UNCHANGED <<client, schedVars, decorVars>>

\* invocations are numbered in the order they are made
NextCall(i) == \A j \in Inv : j < i => calls[j].pc # "idle"

\* a caller invokes a lock-wrapped method of the service
DirectCall(i, m) == NextCall(i) /\ Wrapper(i, m, 0) /\ UNCHANGED <<schedVars, decorVars>>

\* concurrent callers of the contended methods
NextLock ==
  \/ \E i \in Inv, m \in ContendedMethods : DirectCall(i, m)
  \/ \E i \in Inv : LockSettles(i)
  \/ \E i \in Inv : WaitLockStep(i)
  \/ \E i \in Inv, res \in {"returned", "threw"} : BodyEnds(i, res)
  \/ \E i \in Inv : UnLockSettles(i)
  \/ Tick

SpecLock == Init /\ [][NextLock]_vars

\* callers that invoke the wrapped methods, every decoration among them, one
\* after the other
NextOneCall ==
  \/ \E i \in Run, m \in LockedMethods : DirectCall(i, m)
  \/ \E i \in Run : LockSettles(i)
  \/ \E i \in Run : WaitLockStep(i)
  \/ \E i \in Run, res \in {"returned", "threw"} : BodyEnds(i, res)
  \/ \E i \in Run : UnLockSettles(i)
  \/ Tick

SpecOneCall == Init /\ [][NextOneCall]_vars

(* ------------------------------ Scheduled ------------------------------ *)
\* @Scheduled(cron) on method m: throws on an empty cron, else attaches
\* {cron, method} under SCHEDULE_KEY
\* (variant: no test of the expression)
ScheduledUnchecked(m, cron) ==
  /\ ~injected
  /\ Len(registry) + configErrors < MaxRegs
  /\ registry' = Append(registry, [cron |-> cron, method |-> m])
  /\ UNCHANGED <<lockVars, decorVars, configErrors, injected, listeners, timers, appStarts,
                 fires, driverErrors, hasApp>>

Scheduled(m, cron) ==
  /\ ~injected
  /\ Len(registry) + configErrors < MaxRegs
  /\ IF cron = ""
       THEN configErrors' = configErrors + 1 /\ UNCHANGED registry
       ELSE registry' = Append(registry, [cron |-> cron, method |-> m]) /\ UNCHANGED configErrors
  /\ UNCHANGED <<lockVars, decorVars, injected, listeners, timers, appStarts, fires, driverErrors,
                 hasApp>>

\* the keys of the metadata mapping, in the order they were first attached
RECURSIVE MetaKeys(_)
MetaKeys(reg) ==
  IF reg = <<>> THEN <<>>
  ELSE LET front == SubSeq(reg, 1, Len(reg) - 1)
           keys == MetaKeys(front)
           m == reg[Len(reg)].method
       IN IF \E k \in DOMAIN keys : keys[k] = m THEN keys ELSE Append(keys, m)

\* recursiveGetMetadata(SCHEDULE_KEY, target): method -> the list of its records
RecursiveGetMetadata(reg) ==
  [m \in { reg[k].method : k \in DOMAIN reg } |-> SelectSeq(reg, LAMBDA r : r.method = m)]

\* for (const meta in metaDatas) for (const val of metaDatas[meta]): the
\* records in the order injectSchedule visits them
\* (variant: only the first record of each method)
RECURSIVE VisitFromFirst(_, _)
VisitFromFirst(reg, k) ==
  LET keys == MetaKeys(reg) IN
  IF k > Len(keys) THEN <<>>
  ELSE <<RecursiveGetMetadata(reg)[keys[k]][1]>> \o VisitFromFirst(reg, k + 1)

RECURSIVE VisitFrom(_, _)
VisitFrom(reg, k) ==
  LET keys == MetaKeys(reg) IN
  IF k > Len(keys) THEN <<>>
  ELSE RecursiveGetMetadata(reg)[keys[k]] \o VisitFrom(reg, k + 1)

Visit(reg) == VisitFrom(reg, 1)

\* new CronJob(cron, onTick).start() for registration number reg
Job(method, cron, reg) ==
  [method |-> method, cron |-> cron, reg |-> reg, started |-> TRUE, failed |-> FALSE]

\* execInjectSchedule(target, container, method, cron):
\* app && app.once("appStart", listener); nothing else happens before the signal
\* (variants: the CronJob created at once instead of in the listener; the
\* listener subscribed without the test of app)
ExecInjectScheduleUnguarded(st, app, method, cron, reg) ==
  [st EXCEPT !.listeners = Append(@, [method |-> method, cron |-> cron, reg |-> reg])]
ExecInjectScheduleEager(st, app, method, cron, reg) ==
  IF app THEN [st EXCEPT !.timers = Append(@, Job(method, cron, reg))] ELSE st
ExecInjectSchedule(st, app, method, cron, reg) ==
  IF app
    THEN [st EXCEPT !.listeners = Append(@, [method |-> method, cron |-> cron, reg |-> reg])]
    ELSE st

\* the loop of injectSchedule from record k on
RECURSIVE InjectFrom(_, _, _, _)
InjectFrom(st, app, recs, k) ==
  IF k > Len(recs) THEN st
  ELSE InjectFrom(
         IF recs[k].cron # "" /\ recs[k].method # ""
           THEN ExecInjectSchedule(st, app, recs[k].method, recs[k].cron, k)
           ELSE st,
         app, recs, k + 1)

\* injectSchedule(target, instance, container), called by the loader once for
\* the class; app is whether container.getApp() gives an application
InjectSchedule ==
  /\ ~injected
  /\ injected' = TRUE
  /\ \E app \in BOOLEAN :
       LET st == InjectFrom([listeners |-> listeners, timers |-> timers], app, Visit(registry), 1)
       IN /\ listeners' = st.listeners /\ timers' = st.timers
          /\ hasApp' = IF app THEN "yes" ELSE "no"
  /\ UNCHANGED <<lockVars, decorVars, registry, configErrors, appStarts, fires, driverErrors>>

\* the "appStart" listener of one registration: a started CronJob when the
\* container has an instance whose method is a function, else nothing
Listener(l, instance) ==
  IF instance.has /\ l.method \in instance.fns /\ l.cron # ""
    THEN <<Job(l.method, l.cron, l.reg)>>
    ELSE <<>>

\* what container.getInsByClass(target) may give: nothing, or an instance on
\* which the methods in fns are functions
Instances == [has : BOOLEAN, fns : SUBSET ScheduledMethods]

\* the listeners run one after the other
\* (variant: an unresolvable registration ends the handling of the signal)
RECURSIVE RunListenersAbort(_, _, _)
RunListenersAbort(ls, instance, k) ==
  IF k > Len(ls) \/ Listener(ls[k], instance) = <<>> THEN <<>>
  ELSE Listener(ls[k], instance) \o RunListenersAbort(ls, instance, k + 1)

RECURSIVE RunListeners(_, _, _)
RunListeners(ls, instance, k) ==
  IF k > Len(ls) THEN <<>>
  ELSE Listener(ls[k], instance) \o RunListeners(ls, instance, k + 1)

\* app.once: a listener is removed when it has run (variant: app.on)
ListenersAfterEmitOn(ls) == ls
ListenersAfterEmit(ls) == <<>>

\* the application emits "appStart": every listener runs, in order
EmitAppStart ==
  /\ appStarts < MaxStarts
  /\ appStarts' = appStarts + 1
  /\ \E instance \in Instances :
       timers' = timers \o RunListeners(listeners, instance, 1)
  /\ listeners' = ListenersAfterEmit(listeners)
  /\ UNCHANGED <<lockVars, decorVars, registry, configErrors, injected, fires, driverErrors,
                 hasApp>>

\* the slot a new firing runs in
FreeSlot(i) ==
  /\ calls[i].pc = "idle"
  /\ NextCall(i)

\* the timer driver fires job t: onTick logs and calls instance[method]()
Fire(t, i) ==
  /\ t \in DOMAIN timers
  /\ timers[t].started
  /\ fires < MaxFire
  /\ FreeSlot(i)
  /\ fires' = fires + 1
  /\ IF IsWrapped(timers[t].method)
       THEN Wrapper(i, timers[t].method, t)
       ELSE /\ calls' = [calls EXCEPT ![i] =
                 [Idle EXCEPT !.pc = "body", !.method = timers[t].method,
                              !.caller = t, !.receiver = identifier, !.invoked = 1,
                              !.applied = [receiver |-> identifier, props |-> Props(i, t)]]]
            /\ UNCHANGED <<store, client, expiredInUse>>
  /\ UNCHANGED <<registry, configErrors, injected, listeners, timers, appStarts, driverErrors,
                 hasApp, decorVars>>

\* a scheduled method without lock wrapper returns or throws
PlainBodyEnds(i, res) ==
  /\ calls[i].pc = "body"
  /\ calls[i].mode = "none"
  /\ calls' = [calls EXCEPT ![i] =
       Done([@ EXCEPT !.res = res], IF res = "threw" THEN "BusinessError" ELSE "value")]
  /\ UNCHANGED <<store, client, expiredInUse, schedVars, decorVars>>

IsError(outcome) == outcome \notin {"value", "undefined"}

\* try { const res = await instance[method](); return res; } catch (e) { logger.error(e); }
\* (variant: the await without try / catch)
OnTickNoCatch(outcome) == IF IsError(outcome) THEN "uncaught" ELSE "returned"
OnTick(outcome) == IF IsError(outcome) THEN "logged" ELSE "returned"

\* the invocation a firing started has settled and onTick finishes
FiringEnds(i) ==
  /\ calls[i].pc = "done"
  /\ calls[i].caller > 0
  /\ LET t == calls[i].caller
         r == OnTick(calls[i].outcome)
     IN /\ timers' = IF r = "logged" THEN [timers EXCEPT ![t].failed = TRUE] ELSE timers
        /\ driverErrors' = IF r = "uncaught" THEN driverErrors + 1 ELSE driverErrors
  /\ calls' = [calls EXCEPT ![i] = Idle]
  /\ UNCHANGED <<store, client, expiredInUse, registry, configErrors, injected,
                 listeners, appStarts, fires, hasApp, decorVars>>

\* the registrar alone: decoration, injectSchedule and "appStart"
NextRegistrar ==
  \/ \E m \in ScheduledMethods, cron \in CronExprs : Scheduled(m, cron)
  \/ InjectSchedule
  \/ EmitAppStart

SpecRegistrar == Init /\ [][NextRegistrar]_vars

\* the class file is loaded: its decorators run, in any order
NextDecorate ==
  \/ \E m \in LockedMethods : SchedulerLock(m)
  \/ \E m \in LockedMethods : Lock(m)
  \/ \E m \in ScheduledMethods, cron \in CronExprs : Scheduled(m, cron)

SpecDecorate == InitDecorate /\ [][NextDecorate]_vars

\* the registrar and the firings of its timer jobs, one firing at a time; the
\* expression of a job has no part in what a firing does, so one is enough
NextSched ==
  \/ \E m \in ScheduledMethods, cron \in {"", EverySecond} : Scheduled(m, cron)
  \/ InjectSchedule
  \/ EmitAppStart
  \/ \E t \in DOMAIN timers, i \in Run : Fire(t, i)
  \/ \E i \in Run, res \in {"returned", "threw"} : PlainBodyEnds(i, res)
  \/ \E i \in Run : FiringEnds(i)
  \/ \E i \in Run : LockSettles(i)
  \/ \E i \in Run, res \in {"returned", "threw"} : BodyEnds(i, res)
  \/ \E i \in Run : UnLockSettles(i)
  \/ Tick

SpecSched == Init /\ [][NextSched]_vars

\* the same with as many firings in flight as there are invocation slots
NextOverlap ==
  \/ \E m \in ScheduledMethods, cron \in {"", EverySecond} : Scheduled(m, cron)
  \/ InjectSchedule
  \/ EmitAppStart
  \/ \E t \in DOMAIN timers, i \in Inv : Fire(t, i)
  \/ \E i \in Inv, res \in {"returned", "threw"} : PlainBodyEnds(i, res)
  \/ \E i \in Inv : FiringEnds(i)
  \/ \E i \in Inv : LockSettles(i)
  \/ \E i \in Inv, res \in {"returned", "threw"} : BodyEnds(i, res)
  \/ \E i \in Inv : UnLockSettles(i)
  \/ Tick

SpecOverlap == Init /\ [][NextOverlap]_vars

\* direct callers and the scheduler together; the properties of the wrapper
\* are checked under SpecLock and those of the registrar under SpecSched,
\* whose state spaces stay small when the bounds grow
Next == NextLock \/ NextSched

Spec == Init /\ [][Next]_vars

(* ============================== claims ================================= *)
Wrapped(i) == calls[i].pc # "idle" /\ calls[i].method \in LockedMethods

\* the invocations that are inside the original method under lock name n
InBody(n) ==
  { i \in Inv : Wrapped(i) /\ calls[i].pc = "body" /\ LockName(calls[i].method) = n }

\* C1 as stated: among the invocations of wrapped methods that share a lock
\* name, at most one is inside the original method, in every reachable state.
C1_MutualExclusion == \A n \in LockNames : Cardinality(InBody(n)) <= 1

\* C1 amended: among the invocations that share a lock name at most one is
\* inside the original method, as long as no lock on that name has run out of
\* its lockTimeOut before the wrapper holding it had completed.
C1_ExclusionUntilExpiry ==
  \A n \in LockNames : n \notin expiredInUse => Cardinality(InBody(n)) <= 1

\* one invocation is inside the method while another one of the same lock
\* name waits for the lock or has been skipped
C1_Witness ==
  \E i \in Inv, j \in Inv :
    /\ i # j /\ Wrapped(i) /\ Wrapped(j)
    /\ LockName(calls[i].method) = LockName(calls[j].method)
    /\ LockName(calls[i].method) \notin expiredInUse
    /\ calls[i].pc = "body"
    /\ \/ calls[j].pc = "waitLock" /\ calls[j].remaining > 0
       \/ calls[j].pc = "done" /\ calls[j].acquired \in {"false", "reject"}

\* C2: when lock()/waitLock() resolves false or rejects, the wrapper has
\* returned normally with no value, the original method was not invoked (nor
\* was release called), and no error reached the caller.
C2_AcquisitionFailureSkips ==
  \A i \in Inv :
    calls[i].acquired \in {"false", "reject"} =>
      /\ calls[i].pc = "done"
      /\ calls[i].outcome = "undefined"
      /\ calls[i].invoked = 0
      /\ ~calls[i].lockerFlag

C2_Witness ==
  \E i \in Inv, j \in Inv :
    /\ calls[i].pc = "done" /\ calls[i].acquired = "reject" /\ calls[i].mode = "lock"
    /\ calls[j].pc = "done" /\ calls[j].acquired = "false"

MethodOutcome(res) == IF res = "threw" THEN "BusinessError" ELSE "value"

C6_MissingConfigFailsFast ==
  \A i \in Inv :
    (Wrapped(i) /\ ~calls[i].anyConfig) =>
      /\ calls[i].pc = "done"
      /\ calls[i].outcome = "ConfigError"
      /\ calls[i].lockerCls = "" /\ calls[i].mode = "none" /\ calls[i].acquired = "none"
      /\ calls[i].invoked = 0
      /\ calls[i].unLocks = 0

C6_Witness ==
  \E i \in Inv, j \in Inv :
    /\ Wrapped(i) /\ ~calls[i].anyConfig /\ calls[i].redisOptions = "undef"
    /\ Wrapped(j) /\ ~calls[j].anyConfig /\ calls[j].redisOptions = "emptyObj"
    /\ calls[i].outcome = "ConfigError" /\ calls[j].outcome = "ConfigError"

\* the wrapped methods decorated with both a poll interval and a give-up timeout
PollConfigured(m) ==
  /\ m \in LockedMethods
  /\ SchedulerLockArgs[m].waitLockInterval # 0
  /\ SchedulerLockArgs[m].waitLockTimeOut # 0

\* C10: an invocation with a poll interval and a give-up timeout never waits
\* longer than giveUpAfter + pollInterval, and when it gave up it did so
\* between giveUpAfter and giveUpAfter + pollInterval after its call, and
\* the guarded method was not invoked.
C10_GiveUpWithinBounds ==
  \A i \in Inv :
    (calls[i].mode = "waitLock" /\ PollConfigured(calls[i].method)) =>
      LET args == SchedulerLockArgs[calls[i].method]
          G == args.waitLockTimeOut
          P == args.waitLockInterval
      IN /\ calls[i].elapsed <= G + P
         /\ (calls[i].pc = "waitLock" /\ calls[i].elapsed = G + P) => calls[i].remaining = 0
         /\ (calls[i].pc = "done" /\ calls[i].acquired # "true") =>
              /\ calls[i].elapsed >= G /\ calls[i].elapsed <= G + P
              /\ calls[i].invoked = 0
              /\ calls[i].outcome = "undefined"

\* a polling invocation gave up while another invocation of the same lock
\* name was inside the method
C10_Witness ==
  \E i \in Inv, j \in Inv :
    /\ calls[i].mode = "waitLock" /\ PollConfigured(calls[i].method)
    /\ calls[i].pc = "done" /\ calls[i].acquired # "true"
    /\ calls[i].elapsed >= SchedulerLockArgs[calls[i].method].waitLockTimeOut
    /\ Wrapped(j) /\ calls[j].pc = "body"
    /\ LockName(calls[j].method) = LockName(calls[i].method)
    /\ store[LockName(calls[j].method)].holder = j

\* the firings of timer job t that are in flight
InFlight(t) == { i \in Run : calls[i].pc # "idle" /\ calls[i].caller = t }

\* C7: an error raised by the bound method in a firing (an error coming out
\* of the lock wrapper included) is caught inside the firing: no error ever
\* reaches the timer driver, every timer job stays started, and each job can
\* fire again (whenever the bounds of the model leave room for a firing).
C7_FiringErrorsContained ==
  /\ driverErrors = 0
  /\ \A t \in DOMAIN timers : timers[t].started
  /\ \A t \in DOMAIN timers :
       (fires < MaxFire /\ \E i \in Run : calls[i].pc = "idle")
         => ENABLED (\E i \in Run : Fire(t, i))

\* a timer job, one firing of which has failed, is firing again
C7_Witness ==
  \E t \in DOMAIN timers :
    /\ timers[t].failed
    /\ timers[t].method \in LockedMethods
    /\ InFlight(t) # {}
    /\ \E u \in DOMAIN timers : u # t /\ ~timers[u].failed

\* the timer jobs created for registration number r
JobsOf(r) == { t \in DOMAIN timers : timers[t].reg = r }

\* C8: of every registration handed to the registrar (once) at most one
\* timer job exists, however often "appStart" is emitted.
C8_AtMostOneJobPerRegistration ==
  \A r \in 1 .. MaxRegs : Cardinality(JobsOf(r)) <= 1

\* "appStart" has been emitted twice after timer jobs were created
C8_Witness ==
  /\ appStarts >= 2
  /\ Len(registry) >= 2
  /\ \A r \in 1 .. Len(registry) : JobsOf(r) # {}

\* C9: before the first "appStart" no timer job exists and the scheduler has
\* invoked no method: injectSchedule has only subscribed listeners.
C9_NothingBeforeAppStart ==
  appStarts = 0 =>
    /\ timers = <<>>
    /\ fires = 0
    /\ \A i \in Inv : calls[i].caller = 0

\* injectSchedule has run over registrations and "appStart" has not been emitted
C9_Witness ==
  /\ appStarts = 0
  /\ injected
  /\ Len(registry) >= 2
  /\ Len(listeners) = Len(registry)

\* the longest the backend keeps an acquisition made for method m: the
\* lockTimeOut of its decorator, the backend's own expiry when none was given
HoldLimit(m) == ExpireAfter(SchedulerLockArgs[m].lockTimeOut)

\* a free lock name can be taken by whichever caller asks for it
Acquirable(n) ==
  \A j \in Inv :
    (calls[j].pc = "lock" /\ LockName(calls[j].method) = n)
      => ENABLED (LockSettles(j) /\ calls'[j].pc = "body")

C12_ReleaseFreesOwnAcquisition ==
  [][\A i \in Inv :
       (calls[i].pc = "unLock" /\ calls'[i].pc = "done") =>
         \A n \in LockNames : store'[n] # store[n] => store[n].holder = i]_vars

\* the invocations started by firings of timer job t that have not completed
Running(t) ==
  { i \in Inv : calls[i].caller = t /\ calls[i].pc \notin {"idle", "done"} }

\* C13 as stated: of every timer job at most one invocation started by its
\* firings is under way (waiting for the lock included) at any time.
C13_NoOverlappingFirings ==
  \A t \in DOMAIN timers : Cardinality(Running(t)) <= 1

\* C14: Scheduled with the empty expression raises an error in the decoration
\* step itself and writes nothing; no record, no listener and no timer job
\* ever carries the empty expression, and every listener and timer job stems
\* from a record of the registry.
C14_EmptyCronRejected ==
  /\ [](/\ \A k \in DOMAIN registry : registry[k].cron # ""
        /\ \A l \in DOMAIN listeners :
             /\ listeners[l].cron # ""
             /\ \E k \in DOMAIN registry :
                  registry[k] = [cron |-> listeners[l].cron, method |-> listeners[l].method]
        /\ \A t \in DOMAIN timers :
             /\ timers[t].cron # ""
             /\ \E k \in DOMAIN registry :
                  registry[k] = [cron |-> timers[t].cron, method |-> timers[t].method])
  /\ [][\A m \in ScheduledMethods :
          Scheduled(m, "") =>
            /\ configErrors' = configErrors + 1
            /\ UNCHANGED <<registry, listeners, timers>>]_vars

\* a decoration was rejected, and "appStart" has created the timer job of
\* the registration that was accepted
C14_Witness ==
  /\ configErrors >= 1
  /\ Len(registry) = 1
  /\ appStarts >= 1
  /\ Len(timers) = 1

\* C15: on a CONTROLLER class every application of SchedulerLock (or Lock)
\* raises an error and leaves the descriptor of the method as it was; on any
\* other class it replaces the descriptor by the wrapper.
C15_ControllerNotWrapped ==
  \A m \in LockedMethods :
    decorations[m] # "none" =>
      IF componentType = "CONTROLLER"
        THEN decorations[m] = "threw" /\ ~IsWrapped(m)
        ELSE decorations[m] = "wrapped" /\ IsWrapped(m)

\* the decorator has been applied to every method of a CONTROLLER class
C15_Witness ==
  /\ componentType = "CONTROLLER"
  /\ \A m \in LockedMethods : decorations[m] = "threw"

\* the registration of listener l can be resolved on the instance
Resolvable(l, instance) == instance.has /\ l.method \in instance.fns

\* the jobs of sequence js that stem from registration number r
Made(js, r) == { t \in DOMAIN js : js[t].reg = r }

\* C16: whatever instance the container gives, handling "appStart" creates
\* exactly one timer job for every subscribed registration that can be
\* resolved on it and none for one that cannot, and nothing else; the step
\* that handles the signal adds just these jobs and raises no error.
C16_UnresolvableSkipped ==
  /\ [](\A instance \in Instances :
          LET js == RunListeners(listeners, instance, 1)
          IN /\ \A k \in DOMAIN listeners :
                  Cardinality(Made(js, listeners[k].reg)) =
                    IF Resolvable(listeners[k], instance) THEN 1 ELSE 0
             /\ \A t \in DOMAIN js : \E k \in DOMAIN listeners : listeners[k].reg = js[t].reg)
  /\ [][appStarts' # appStarts =>
          /\ configErrors' = configErrors /\ driverErrors' = driverErrors
          /\ \E instance \in Instances :
               timers' = timers \o RunListeners(listeners, instance, 1)]_vars

\* of two registrations on different methods the first was skipped and the
\* second got its timer job
C16_Witness ==
  /\ appStarts >= 1
  /\ Len(registry) = 2
  /\ registry[1].method # registry[2].method
  /\ listeners = <<>>
  /\ Len(timers) = 1
  /\ timers[1].reg = 2
  /\ timers[1].method = registry[2].method

\* C17: an invocation that got as far as the acquisition has called waitLock
\* when a poll interval or a give-up timeout was given to the decorator, and
\* lock when neither was; an invocation that has called neither has failed on
\* the configuration or on the client.
C17_ModeFollowsArguments ==
  \A i \in Inv :
    Wrapped(i) =>
      LET args == SchedulerLockArgs[calls[i].method]
          given == args.waitLockInterval # 0 \/ args.waitLockTimeOut # 0
      IN /\ calls[i].mode \in {"none", "lock", "waitLock"}
         /\ calls[i].mode = "waitLock" => given
         /\ calls[i].mode = "lock" => ~given
         /\ calls[i].mode = "none" =>
              /\ calls[i].pc = "done"
              /\ calls[i].acquired = "none"
              /\ calls[i].outcome \in {"ConfigError", "ConnError"}
         /\ calls[i].lockerCls = "ready" => calls[i].mode # "none"

\* an invocation decorated with a poll interval alone has called waitLock,
\* has got the lock on a later attempt and is inside the method
C17_Witness ==
  \E i \in Inv :
    /\ Wrapped(i) /\ calls[i].mode = "waitLock"
    /\ SchedulerLockArgs[calls[i].method].waitLockInterval # 0
    /\ SchedulerLockArgs[calls[i].method].waitLockTimeOut = 0
    /\ calls[i].elapsed > 0
    /\ calls[i].pc = "body"

\* the timer jobs / the registry records of method m with expression c
TimersFor(m, c) == { t \in DOMAIN timers : timers[t].method = m /\ timers[t].cron = c }
RecordsFor(m, c) == { k \in DOMAIN registry : registry[k].method = m /\ registry[k].cron = c }

\* C18: every timer job is started; a method that has a timer job at all (so
\* the instance is live and the method callable) has, for each expression, as
\* many timer jobs as it has registry records with that expression; and there
\* are no other timer jobs.
C18_OneStartedTimerPerRecord ==
  /\ \A t \in DOMAIN timers : timers[t].started
  /\ \A t \in DOMAIN timers :
       \A c \in CronExprs \ {""} :
         Cardinality(TimersFor(timers[t].method, c)) = Cardinality(RecordsFor(timers[t].method, c))
  /\ \A t \in DOMAIN timers : RecordsFor(timers[t].method, timers[t].cron) # {}
  /\ Len(timers) <= Len(registry)

\* a method with two records of different expressions has its two timer jobs
C18_Witness ==
  /\ appStarts >= 1
  /\ Len(registry) = 2
  /\ registry[1].method = registry[2].method
  /\ registry[1].cron # registry[2].cron
  /\ Len(timers) = 2
  /\ timers[1].cron = registry[1].cron
  /\ timers[2].cron = registry[2].cron

\* C19: an invocation that acquired the lock has called the original method
\* once, with the receiver and the arguments of the wrapper call, and when
\* the method returned the caller receives its value.
C19_OriginalInvokedAsCalled ==
  \A i \in Inv :
    (Wrapped(i) /\ calls[i].acquired = "true") =>
      /\ calls[i].invoked = 1
      /\ calls[i].applied = [receiver |-> calls[i].receiver, props |-> calls[i].props]
      /\ calls[i].receiver = identifier
      /\ (calls[i].pc = "done" /\ calls[i].res = "returned") => calls[i].outcome = "value"

\* a direct call with an argument has gone through the method and returned
C19_Witness ==
  \E i \in Inv :
    /\ Wrapped(i) /\ calls[i].acquired = "true"
    /\ calls[i].props # <<>>
    /\ calls[i].applied.props = calls[i].props
    /\ calls[i].pc = "done" /\ calls[i].res = "returned" /\ calls[i].outcome = "value"

\* C20: an invocation whose lockerFlag is not set (the acquisition gave false
\* or rejected, the configuration was missing, no client) is never inside the
\* method nor in the release step and has never called release.
C20_NoReleaseWithoutAcquisition ==
  \A i \in Inv :
    (Wrapped(i) /\ ~calls[i].lockerFlag) =>
      /\ calls[i].unLocks = 0
      /\ calls[i].rel = "none"
      /\ calls[i].pc \notin {"body", "unLock"}

\* a single attempt was refused and has completed while the invocation that
\* holds the lock is still inside the method, its entry untouched
C20_Witness ==
  \E i \in Inv, j \in Inv :
    /\ Wrapped(i) /\ calls[i].pc = "done" /\ calls[i].mode = "lock"
    /\ calls[i].acquired = "false" /\ calls[i].unLocks = 0
    /\ Wrapped(j) /\ calls[j].pc = "body"
    /\ LockName(calls[j].method) = LockName(calls[i].method)
    /\ store[LockName(calls[i].method)] # Free
    /\ store[LockName(calls[i].method)].holder = j

\* C21: when container.getApp() gave nothing, the call of injectSchedule
\* changes neither the listeners nor the timer jobs nor any error count, and
\* from then on there is no listener, no timer job and no firing, however
\* often "appStart" is emitted.
C21_NoAppNothingScheduled ==
  /\ [](hasApp = "no" =>
          /\ injected
          /\ listeners = <<>>
          /\ timers = <<>>
          /\ fires = 0
          /\ driverErrors = 0
          /\ \A i \in Inv : calls[i].caller = 0)
  /\ [][(hasApp = "unread" /\ hasApp' = "no") =>
          UNCHANGED <<listeners, timers, configErrors, driverErrors>>]_vars

\* injectSchedule found two registrations and no application object, and
\* "appStart" has been emitted twice since
C21_Witness ==
  /\ hasApp = "no"
  /\ Len(registry) = 2
  /\ appStarts = 2
  /\ timers = <<>>

====
